---- MODULE Spec2Model ----
(***************************************************************************)
(* versus-rs: send every line of stdin to a pool of JSON-RPC providers and *)
(* compare what they answer (src/src/main.rs).                             *)
(*                                                                         *)
(* main builds the pool (App::new), then App::run reads stdin line by      *)
(* line; App::send_supposed_json posts the line to every provider,         *)
(* join_all waits for all of the calls, and the answers are tallied into   *)
(* two Counters and reported.                                              *)
(***************************************************************************)
EXTENDS Bags, FiniteSets, Integers, Sequences, TLC

(* ---- bounds of the model ---------------------------------------------- *)
MaxRpcs == 2
MaxLines == 2
MaxCount == 2

(* ---- inputs ----------------------------------------------------------- *)
\* Addresses given on the command line. The first two parse as URLs, the
\* last one does not (no scheme).
GoodAddrs == {"http://a", "http://b"}
BadAddrs == {"not-a-url"}
Addrs == GoodAddrs \cup BadAddrs

\* Lines of stdin: one JSON-RPC request, and one line that is not JSON.
JsonLines == {"{\"method\":\"eth_blockNumber\"}"}
JunkLines == {"not json"}
Lines == JsonLines \cup JunkLines

\* Response bodies a provider may answer with.
Bodies == {"A", "B"}

\* The ways one call fails: send() fails, error_for_status() sees a non-2xx
\* status, text() cannot read the body.
ErrKinds == {"Request", "Status", "Body"}

NoUrl == "<none>"

RECURSIVE SeqsUpTo(_, _)
SeqsUpTo(S, n) ==
    IF n = 0 THEN {<<>>}
    ELSE LET shorter == SeqsUpTo(S, n - 1)
         IN  shorter \cup {Append(s, x) : s \in shorter, x \in S}

VARIABLES
    config,          \* VersusConfig: rpcs, max_count
    pc,              \* where main is: "new", "read", "join", "ran", "exit"
    new_i,           \* App::new: index of the next rpc of config.rpcs
    http_providers,  \* App.http_providers (while in App::new: the local)
    max_count,       \* App.max_count
    newOut,          \* lines printed by App::new
    count,           \* App::run: count
    lineNo,          \* number of lines next_line() has returned so far
    sawEof,          \* next_line() returned None
    accepted,        \* the lines next_line() returned, with their line number
    request,         \* App::send_supposed_json: request (with its line number)
    created,         \* provider futures built and not yet polled
    inflight,        \* providers whose call has been issued and not answered
    responses,       \* provider index -> response, for the calls that completed
    arrival,         \* while join_all waits: the providers that have answered,
                     \* in the order they did
    sent,            \* provider index -> the requests its call was issued with
    successes,       \* Counter of response bodies of the latest request
    errors,          \* Counter of error texts of the latest request
    reqOut,          \* lines printed by the latest App::send_supposed_json
    verdicts,        \* per aggregated request: was "all matched" printed,
                     \* did any provider's call fail, did two bodies differ
    runOut,          \* lines printed by App::run
    runResult,       \* what App::run returned: "none", "Ok", "Err"
    exit             \* process result: "none", "success", "failure"

vars == <<config, pc, new_i, http_providers, max_count, newOut, count, lineNo,
          sawEof, accepted, request, created, inflight, responses, sent,
          successes, errors, reqOut, verdicts, runOut, runResult, exit,
          arrival>>

(* ---- HttpJsonRpcProvider ---------------------------------------------- *)
\* Url::parse: an absolute URL is normalised (an empty path becomes "/"),
\* anything else is an error.
UrlParse(rpc) ==
    IF rpc \in GoodAddrs
    THEN [ok |-> TRUE, url |-> rpc \o "/"]
    ELSE [ok |-> FALSE, err |-> "RelativeUrlWithoutBase"]

\* HttpJsonRpcProvider::new
NewProvider(url) == [next_id |-> 1, url |-> url]

Ok(body) == [ok |-> TRUE, body |-> body]
Err(e) == [ok |-> FALSE, err |-> e]

\* What HttpJsonRpcProvider::send_supposed_json may return for a provider:
\* the body, or the reqwest::Error of the step that failed. The errors of
\* send() and error_for_status() carry the url of the request, the error of
\* text() does not.
ProviderResults(provider) ==
    {Ok(b) : b \in Bodies}
    \cup {Err([kind |-> k,
               url |-> IF k = "Body" THEN NoUrl ELSE provider.url]) :
            k \in ErrKinds}

\* The chain the endpoint behind an url serves (what it would answer to
\* eth_chainId). Nothing in the program asks for it: "TODO: first check all
\* of their chain ids".
ChainOf(url) == IF url = "http://a/" THEN "chain-a" ELSE "chain-b"

\* format!("{:#?}", err)
FormatErr(e) ==
    "reqwest::Error { kind: " \o e.kind
        \o (IF e.url = NoUrl THEN "" ELSE ", url: " \o e.url) \o " }"

(* ---- App::new ---------------------------------------------------------- *)
Init ==
    /\ config \in [rpcs : SeqsUpTo(Addrs, MaxRpcs), max_count : 0..MaxCount]
    /\ pc = "new"
    /\ new_i = 1
    /\ http_providers = <<>>
    /\ max_count = 0
    /\ newOut = <<>>
    /\ count = 0
    /\ lineNo = 0
    /\ sawEof = FALSE
    /\ accepted = <<>>
    /\ request = <<0, "">>
    /\ created = {}
    /\ inflight = {}
    /\ responses = <<>>
    /\ arrival = <<>>
    /\ sent = <<>>
    /\ successes = EmptyBag
    /\ errors = EmptyBag
    /\ reqOut = <<>>
    /\ verdicts = <<>>
    /\ runOut = <<>>
    /\ runResult = "none"
    /\ exit = "none"

\* Variant: an url that is already in the pool is not added again.
PushParsedDedup(pool, rpc) ==
    LET parsed == UrlParse(rpc)
    IN  IF parsed.ok /\ \A k \in DOMAIN pool : pool[k].url # parsed.url
        THEN Append(pool, NewProvider(parsed.url))
        ELSE pool

\* What one round of the loop over config.rpcs does with the pool.
PushParsed(pool, rpc) ==
    LET parsed == UrlParse(rpc)
    IN  IF parsed.ok THEN Append(pool, NewProvider(parsed.url)) ELSE pool

\* One round of `for rpc in config.rpcs.iter()`.
NewStep ==
    /\ pc = "new"
    /\ new_i <= Len(config.rpcs)
    /\ LET rpc == config.rpcs[new_i]
           parsed == UrlParse(rpc)
       IN  /\ http_providers' = PushParsed(http_providers, rpc)
           /\ newOut' = IF parsed.ok THEN newOut
                        ELSE Append(newOut, <<"Failed parsing url", rpc, parsed.err>>)
    /\ new_i' = new_i + 1
    /\ UNCHANGED <<arrival, config, pc, max_count, count, lineNo, sawEof, accepted,
                   request, created, inflight, responses, sent, successes,
                   errors, reqOut, verdicts, runOut, runResult, exit>>

\* The loop is over: App::new returns Ok(Self {..}) and main calls app.run(),
\* which sets count to 0 and opens stdin.
NewReturn ==
    /\ pc = "new"
    /\ new_i > Len(config.rpcs)
    /\ max_count' = config.max_count
    /\ sent' = [p \in DOMAIN http_providers |-> <<>>]
    /\ count' = 0
    /\ pc' = "read"
    /\ UNCHANGED <<arrival, config, new_i, http_providers, newOut, lineNo, sawEof,
                   accepted, request, created, inflight, responses, successes,
                   errors, reqOut, verdicts, runOut, runResult, exit>>

(* ---- App::run ---------------------------------------------------------- *)
\* Variant: the first provider is left out (iter().skip(1)).
TargetsSkipFirst(pool) == 2..Len(pool)

\* The providers a request goes to: self.http_providers.iter().
Targets(pool) == 1..Len(pool)

\* Variant: a line that is not JSON gets no futures.
FuturesOnlyJson(pool, req) ==
    IF req[2] \in JunkLines THEN {} ELSE {<<p, req>> : p \in Targets(pool)}

\* let requests = self.http_providers.iter().map(|provider| ..): one future
\* per provider, each with its own clone of the request.
Futures(pool, req) == {<<p, req>> : p \in Targets(pool)}

\* Variant: the call of send_supposed_json is not awaited before the next
\* line is read.
ReadGuardNoAwait == pc \in {"read", "join"}

\* The loop of App::run asks for the next line only after the call of
\* send_supposed_json for the previous one has been awaited.
ReadGuard == pc = "read"

\* println!("sent {}/{} requests", count, self.max_count)
Summary(c, m) == <<"sent", c, m>>

\* Variant: the Counter lives on between the calls and is not cleared.
CounterKept(old) == old

\* Counter::new(): the Counters are locals of send_supposed_json, so each call
\* has its own empty ones, whatever the call before (old) had counted.
CounterNew(old) == EmptyBag

\* next_line() returns Some(line): send_supposed_json(line) is called with
\* its own Counters and output, builds one future per provider and hands
\* them to join_all.
RunNextLine(line) ==
    /\ ReadGuard
    /\ lineNo < MaxLines
    /\ lineNo' = lineNo + 1
    /\ LET req == <<lineNo + 1, line>>
       IN  /\ request' = req
           /\ accepted' = Append(accepted, req)
           /\ created' = created \cup Futures(http_providers, req)
    /\ responses' = <<>>
    /\ successes' = CounterNew(successes)
    /\ errors' = CounterNew(errors)
    /\ reqOut' = <<>>
    /\ arrival' = <<>>
    /\ pc' = "join"
    /\ UNCHANGED <<config, new_i, http_providers, max_count, newOut, count,
                   sawEof, inflight, sent, verdicts, runOut, runResult, exit>>

\* next_line() returns None: the loop ends, the summary is printed, Ok(()).
RunEof ==
    /\ ReadGuard
    /\ sawEof' = TRUE
    /\ runOut' = Append(runOut, Summary(count, max_count))
    /\ runResult' = "Ok"
    /\ pc' = "ran"
    /\ UNCHANGED <<arrival, config, new_i, http_providers, max_count, newOut, count,
                   lineNo, accepted, request, created, inflight, responses,
                   sent, successes, errors, reqOut, verdicts, exit>>

\* next_line() returns Err (stdin cannot be read, or is not UTF-8): `?`
\* returns the error from run, nothing is printed.
RunReadErr ==
    /\ ReadGuard
    /\ runResult' = "Err"
    /\ pc' = "ran"
    /\ UNCHANGED <<arrival, config, new_i, http_providers, max_count, newOut, count,
                   lineNo, sawEof, accepted, request, created, inflight,
                   responses, sent, successes, errors, reqOut, verdicts,
                   runOut, exit>>

(* ---- App::send_supposed_json ------------------------------------------- *)
\* join_all polls the future of provider p for the first time: the future
\* calls provider.send_supposed_json(request), which issues the POST.
\* (join_all polls in pool order; every order is allowed here.)
Send(p) ==
    /\ pc = "join"
    /\ \E f \in created :
          /\ f[1] = p
          /\ created' = created \ {f}
          /\ sent' = [sent EXCEPT ![p] = Append(@, f[2])]
    /\ inflight' = inflight \cup {p}
    /\ UNCHANGED <<arrival, config, pc, new_i, http_providers, max_count, newOut, count,
                   lineNo, sawEof, accepted, request, responses, successes,
                   errors, reqOut, verdicts, runOut, runResult, exit>>

\* Variant: a call that takes too long is given up without an outcome.
CompleteOrGiveUp(p, r) ==
    /\ pc = "join"
    /\ p \in inflight
    /\ r \in ProviderResults(http_providers[p])
    /\ inflight' = inflight \ {p}
    /\ \/ responses' = [q \in DOMAIN responses \cup {p} |->
                            IF q = p THEN r ELSE responses[q]]
       \/ responses' = responses
    /\ arrival' = Append(arrival, p)
    /\ UNCHANGED <<config, pc, new_i, http_providers, max_count, newOut, count,
                   lineNo, sawEof, accepted, request, created, sent, successes,
                   errors, reqOut, verdicts, runOut, runResult, exit>>

\* The call of provider p completes with a body or with an error.
Complete(p, r) ==
    /\ pc = "join"
    /\ p \in inflight
    /\ r \in ProviderResults(http_providers[p])
    /\ inflight' = inflight \ {p}
    /\ responses' = [q \in DOMAIN responses \cup {p} |->
                        IF q = p THEN r ELSE responses[q]]
    /\ arrival' = Append(arrival, p)
    /\ UNCHANGED <<config, pc, new_i, http_providers, max_count, newOut, count,
                   lineNo, sawEof, accepted, request, created, sent, successes,
                   errors, reqOut, verdicts, runOut, runResult, exit>>

\* Variant: ready as soon as one future is (a select instead of a join).
AnyJoined == DOMAIN responses # {}

\* join_all(requests).await is ready when every future is.
AllJoined == created = {} /\ inflight = {}

\* Variant: the responses are gone through in the order they arrived in (a
\* FuturesUnordered instead of join_all).
RECURSIVE TallyArrival(_, _, _, _)
TallyArrival(pool, resps, i, acc) ==
    IF i > Len(arrival) THEN acc
    ELSE LET r == resps[arrival[i]]
         IN  TallyArrival(pool, resps, i + 1,
                          [successes |-> IF r.ok
                                         THEN acc.successes (+) SetToBag({r.body})
                                         ELSE acc.successes,
                           errors |-> IF r.ok
                                      THEN acc.errors
                                      ELSE acc.errors (+) SetToBag({FormatErr(r.err)}),
                           out |-> Append(acc.out,
                                          <<"completed", pool[arrival[i]].url>>)])

\* Variant: the count of a key is set to 1 instead of raised by 1.
RECURSIVE TallySet(_, _, _, _)
TallySet(pool, resps, i, acc) ==
    IF i > Len(pool) THEN acc
    ELSE IF i \notin DOMAIN resps THEN TallySet(pool, resps, i + 1, acc)
    ELSE LET r == resps[i]
         IN  TallySet(pool, resps, i + 1,
                      [successes |-> IF r.ok
                                     THEN SetToBag(DOMAIN acc.successes \cup {r.body})
                                     ELSE acc.successes,
                       errors |-> IF r.ok
                                  THEN acc.errors
                                  ELSE SetToBag(DOMAIN acc.errors \cup {FormatErr(r.err)}),
                       out |-> Append(acc.out, <<"completed", pool[i].url>>)])

\* `for (provider, response, duration) in responses`, in pool order: count
\* the body or the formatted error and print the completion line (the
\* duration it prints is left out).
RECURSIVE Tally(_, _, _, _)
Tally(pool, resps, i, acc) ==
    IF i > Len(pool) THEN acc
    ELSE IF i \notin DOMAIN resps THEN Tally(pool, resps, i + 1, acc)
    ELSE LET r == resps[i]
         IN  Tally(pool, resps, i + 1,
                   [successes |-> IF r.ok
                                  THEN acc.successes (+) SetToBag({r.body})
                                  ELSE acc.successes,
                    errors |-> IF r.ok
                               THEN acc.errors
                               ELSE acc.errors (+) SetToBag({FormatErr(r.err)}),
                    out |-> Append(acc.out, <<"completed", pool[i].url>>)])

\* Variant: the total of the counts instead of the number of keys.
CounterTotal(c) == BagCardinality(c)

\* Counter::len(): the number of distinct keys.
CounterLen(c) == Cardinality(DOMAIN c)

\* Variant: the errors are not looked at.
AllMatchedIgnoringErrors(succ, errs) == CounterLen(succ) = 1

\* errors.len() == 0 && successes.len() == 1
AllMatched(succ, errs) == CounterLen(errs) = 0 /\ CounterLen(succ) = 1

\* What is printed after the loop: the verdict, or the two tables.
Report(succ, errs) ==
    IF AllMatched(succ, errs)
    THEN <<(<<"all matched! yey!">>)>>
    ELSE <<(<<"successes", succ>>), (<<"errors", errs>>)>>

HasLine(out, tag) == \E k \in DOMAIN out : out[k][1] = tag

\* Variant: a failed call is returned as the error of the request.
SendResultFailOnErr(succ, errs) == IF errs # EmptyBag THEN "Err" ELSE "Ok"

\* What send_supposed_json returns: Ok(()) on both paths.
SendResult(succ, errs) == "Ok"

\* if count >= self.max_count { break }
MaxReached(c, m) == c >= m

\* join_all is ready, and hands the responses over in the order of the
\* futures, not of the answers: tally, report and return to run, which counts the
\* request and either goes for the next line or leaves the loop.
Aggregate ==
    /\ pc = "join"
    /\ AllJoined
    /\ LET t == Tally(http_providers, responses, 1,
                      [successes |-> successes, errors |-> errors, out |-> <<>>])
           res == SendResult(t.successes, t.errors)
       IN  /\ successes' = t.successes
           /\ errors' = t.errors
           /\ reqOut' = t.out \o Report(t.successes, t.errors)
           /\ verdicts' = Append(verdicts,
                                 [matched |-> HasLine(reqOut', "all matched! yey!"),
                                  failed |-> \E q \in DOMAIN responses : ~responses[q].ok,
                                  differ |-> \E q, q2 \in DOMAIN responses :
                                                /\ responses[q].ok
                                                /\ responses[q2].ok
                                                /\ responses[q].body # responses[q2].body])
           /\ IF res = "Err"
              THEN /\ runResult' = "Err"
                   /\ pc' = "ran"
                   /\ UNCHANGED <<count, runOut>>
              ELSE /\ count' = count + 1
                   /\ IF MaxReached(count + 1, max_count)
                      THEN /\ runOut' = Append(runOut, Summary(count + 1, max_count))
                           /\ runResult' = "Ok"
                           /\ pc' = "ran"
                      ELSE /\ pc' = "read"
                           /\ UNCHANGED <<runOut, runResult>>
    /\ arrival' = <<>>
    /\ UNCHANGED <<config, new_i, http_providers, max_count, newOut, lineNo,
                   sawEof, accepted, request, created, inflight, responses,
                   sent, exit>>

(* ---- main -------------------------------------------------------------- *)
\* app.run().await? and the final Ok(()).
MainExit ==
    /\ pc = "ran"
    /\ exit' = IF runResult = "Ok" THEN "success" ELSE "failure"
    /\ pc' = "exit"
    /\ UNCHANGED <<arrival, config, new_i, http_providers, max_count, newOut, count,
                   lineNo, sawEof, accepted, request, created, inflight,
                   responses, sent, successes, errors, reqOut, verdicts,
                   runOut, runResult>>

Next ==
    \/ NewStep
    \/ NewReturn
    \/ \E line \in Lines : RunNextLine(line)
    \/ RunEof
    \/ RunReadErr
    \/ \E p \in DOMAIN http_providers : Send(p)
    \/ \E p \in DOMAIN http_providers :
          \E r \in ProviderResults(http_providers[p]) : Complete(p, r)
    \/ Aggregate
    \/ MainExit

Spec == Init /\ [][Next]_vars

(* ---- runs in which stdin can be read and every call is answered -------- *)
\* The steps the program takes by itself once the runtime polls it.
ProgramStep ==
    \/ NewStep
    \/ NewReturn
    \/ \E p \in DOMAIN http_providers : Send(p)
    \/ Aggregate
    \/ MainExit

\* stdin hands over a request or ends. (No step of the program looks into a
\* line, so the lines are all taken to be requests here.)
ReadAny == (\E line \in JsonLines : RunNextLine(line)) \/ RunEof

\* A provider answers a call.
CompleteAny ==
    \E p \in DOMAIN http_providers :
        \E r \in ProviderResults(http_providers[p]) : Complete(p, r)

NextLive == ProgramStep \/ ReadAny \/ CompleteAny

\* The runtime polls what is ready, stdin does not hang, and no provider
\* leaves a call unanswered for ever.
LiveSpec ==
    /\ Init
    /\ [][NextLive]_vars
    /\ WF_vars(ProgramStep)
    /\ WF_vars(ReadAny)
    /\ WF_vars(CompleteAny)

(* ======================================================================= *)
(* Properties                                                              *)
(* ======================================================================= *)
Pool == DOMAIN http_providers
RunEnded == pc \in {"ran", "exit"}
\* send_supposed_json has reported on the latest request and nothing has
\* been read since.
Reported == pc \in {"read", "ran", "exit"} /\ verdicts # <<>>
IsPrefix(s, t) == Len(s) <= Len(t) /\ \A k \in DOMAIN s : s[k] = t[k]
FailedCalls == {p \in DOMAIN responses : ~responses[p].ok}
OkBodies == {responses[p].body : p \in DOMAIN responses \ FailedCalls}
MatchedPrinted == HasLine(reqOut, "all matched! yey!")
TablesPrinted == HasLine(reqOut, "successes") /\ HasLine(reqOut, "errors")

\* C1: at the end of a run every provider has been sent exactly the lines the
\* run read, each of them once: no line is missing from a provider's log and
\* no line number occurs in it twice.
C1_SentExactlyAccepted ==
    RunEnded =>
        \A p \in Pool :
            /\ sent[p] = accepted
            /\ \A i, j \in DOMAIN sent[p] : i # j => sent[p][i][1] # sent[p][j][1]

\* Two providers, two lines with the same text, the run is over.
C1_Witness ==
    /\ pc = "exit"
    /\ Len(http_providers) = 2
    /\ Len(accepted) = 2
    /\ accepted[1][2] = accepted[2][2]
    /\ Len(sent[2]) = 2

\* C2: in every state, what a provider has been sent is a prefix of the lines
\* in the order they were read: a line read earlier is sent to every provider
\* before a line read later, however the providers' calls interleave.
C2_SameOrderEverywhere ==
    \A p \in Pool :
        /\ p \in DOMAIN sent => IsPrefix(sent[p], accepted)
        /\ p \in DOMAIN sent =>
              \A i, j \in DOMAIN sent[p] : i < j => sent[p][i][1] < sent[p][j][1]

\* The second provider has answered the second line before the first
\* provider's call for it was issued.
C2_Witness ==
    /\ pc = "join"
    /\ Len(http_providers) = 2
    /\ Len(sent[2]) = 2
    /\ Len(sent[1]) = 1
    /\ 2 \in DOMAIN responses

\* C3: no provider is ever sent more than max_count lines, and when a run
\* ends every provider has been sent min(L, max_count) lines: all L lines
\* when stdin ended first, max_count lines when the loop was left for the
\* count.
C3_BroadcastIsMin ==
    \A p \in Pool : p \in DOMAIN sent =>
        /\ Len(sent[p]) <= max_count
        /\ (RunEnded /\ runResult = "Ok") =>
              IF sawEof THEN Len(sent[p]) = lineNo
              ELSE Len(sent[p]) = max_count

\* The run is configured to send at least one request (what a run with
\* max_count 0 reads is the matter of C3).
LimitPositive == config.max_count >= 1

\* C4 (as stated): a line that is not JSON is sent to no provider and is not
\* counted: count is the number of JSON lines the providers were sent.
C4_MalformedSkipped ==
    LimitPositive =>
        /\ \A p \in Pool : p \in DOMAIN sent =>
              \A i \in DOMAIN sent[p] : sent[p][i][2] \in JsonLines
        /\ \A p \in Pool : (p \in DOMAIN sent /\ pc = "read") =>
              count = Cardinality({i \in DOMAIN sent[p] : sent[p][i][2] \in JsonLines})

\* C4 (amended): a line that is not JSON is handled like any other line: once
\* its request is reported it has been sent to every provider, and it has
\* raised count by one, so that count is the number of lines read.
C4_MalformedLineIsSent ==
    pc \in {"read", "ran", "exit"} =>
        /\ count = Len(accepted)
        /\ \A i \in DOMAIN accepted :
              accepted[i][2] \in JunkLines =>
                  \A p \in Pool : i \in DOMAIN sent[p] /\ sent[p][i] = accepted[i]

\* A junk line and then a JSON line, both counted, with max_count 2 reached.
C4_Witness ==
    /\ pc = "exit"
    /\ Len(http_providers) >= 1
    /\ Len(accepted) = 2
    /\ accepted[1][2] \in JunkLines
    /\ accepted[2][2] \in JsonLines
    /\ count = 2
    /\ max_count = 2
    /\ ~sawEof

\* C5: for a reported request "all matched" is printed exactly when the
\* providers' outcomes hold one distinct body and no failure; the two tables
\* are printed exactly when it is not, so never both and never neither.
C5_MatchedIffOneBodyNoError ==
    Reported =>
        /\ MatchedPrinted <=> (Cardinality(OkBodies) = 1 /\ FailedCalls = {})
        /\ TablesPrinted <=> ~MatchedPrinted
        /\ (HasLine(reqOut, "successes") \/ HasLine(reqOut, "errors")) => ~MatchedPrinted

\* Two providers gave the same body and "all matched" was printed.
C5_Witness ==
    /\ Reported
    /\ Len(http_providers) = 2
    /\ FailedCalls = {}
    /\ Cardinality(OkBodies) = 1
    /\ MatchedPrinted

AllIdentical ==
    /\ DOMAIN responses = Pool
    /\ \A p, q \in Pool : responses[p] = responses[q]

\* C6 (as stated): two or more providers with identical outcomes, successes
\* or failures, get "all matched".
C6_IdenticalOutcomesMatch ==
    (LimitPositive /\ Reported /\ Len(http_providers) >= 2 /\ AllIdentical) =>
        /\ MatchedPrinted
        /\ verdicts[Len(verdicts)].matched

\* C6 (amended): two or more providers with identical outcomes get "all
\* matched" and no tables when the outcome is a body; when the identical
\* outcome is a failure the tables are printed and "all matched" is not.
C6_IdenticalBodiesMatch ==
    (Reported /\ Len(http_providers) >= 2 /\ AllIdentical) =>
        /\ responses[1].ok => (MatchedPrinted /\ ~TablesPrinted)
        /\ ~responses[1].ok => (TablesPrinted /\ ~MatchedPrinted)
        /\ verdicts[Len(verdicts)].matched = responses[1].ok

\* Two providers agreed on the body of two requests in a row.
C6_Witness ==
    /\ Reported
    /\ Len(http_providers) = 2
    /\ AllIdentical
    /\ responses[1].ok
    /\ Len(verdicts) = 2
    /\ verdicts[1].matched
    /\ verdicts[2].matched

Mismatch(v) == v.differ \/ v.failed

\* C7: the process ends with failure when for some request the providers
\* gave more than one distinct body or any error, and with success when no
\* request did and run got to its summary.
C7_ExitReflectsMismatch ==
    (LimitPositive /\ pc = "exit") =>
        /\ (\E k \in DOMAIN verdicts : Mismatch(verdicts[k])) => exit = "failure"
        /\ ((\A k \in DOMAIN verdicts : ~Mismatch(verdicts[k])) /\ runOut # <<>>) =>
              exit = "success"

\* C8: a failed call ends neither the request nor the run. The step that
\* reports a request with failed calls has one entry in the error table per
\* failed call, returns no error, counts the request and goes on to the next
\* line unless max_count is reached; and whenever no call is pending every
\* provider, one that failed included, has been sent every line read.
C8_FailureDoesNotAbort ==
    /\ [][(pc = "join" /\ pc' # "join" /\ verdicts' # verdicts /\ FailedCalls # {}) =>
            /\ BagCardinality(errors') = Cardinality(FailedCalls)
            /\ runResult' # "Err"
            /\ count' = count + 1
            /\ (count' < max_count => pc' = "read")]_vars
    /\ [](pc \in {"read", "ran", "exit"} =>
            \A p \in Pool : sent[p] = accepted)

\* The first request had a failed call, and the second line has been sent to
\* both providers all the same.
C8_Witness ==
    /\ Len(http_providers) = 2
    /\ Len(verdicts) >= 1
    /\ verdicts[1].failed
    /\ Len(accepted) = 2
    /\ Len(sent[1]) = 2
    /\ Len(sent[2]) = 2

\* C9: while the call of any provider for the request is still to be issued
\* or to be answered nothing is reported: when a report is there, every
\* provider of the pool has its response in.
C9_ReportAfterAllJoined ==
    (pc = "join" /\ (created # {} \/ inflight # {}) => reqOut = <<>>)
    /\ (reqOut # <<>> => (created = {} /\ inflight = {} /\ DOMAIN responses = Pool))

\* A report over one failed and one successful call.
C9_Witness ==
    /\ reqOut # <<>>
    /\ Len(http_providers) = 2
    /\ ~responses[1].ok
    /\ responses[2].ok

\* The pool App::new is to build: the providers of the addresses that parse,
\* in the order of the configuration.
ParseableInOrder(rpcs) ==
    LET good == SelectSeq(rpcs, LAMBDA a : UrlParse(a).ok)
    IN  [k \in 1..Len(good) |-> NewProvider(UrlParse(good[k]).url)]

\* C10: App::new gets through every list of addresses: when it has returned
\* the pool holds the addresses that parse, in their configured order and
\* with duplicates, and one line has been printed per address that does not.
C10_PoolIsParseable ==
    /\ pc = "new" => new_i <= Len(config.rpcs) + 1
    /\ pc # "new" =>
          /\ http_providers = ParseableInOrder(config.rpcs)
          /\ Len(newOut) + Len(http_providers) = Len(config.rpcs)
          /\ \A k \in DOMAIN newOut : ~UrlParse(newOut[k][2]).ok

\* The same address twice: both are in the pool.
C10_Witness ==
    /\ pc = "read"
    /\ Len(config.rpcs) = 2
    /\ config.rpcs[1] = config.rpcs[2]
    /\ Len(http_providers) = 2

\* C11: a provider whose chain differs from the first provider's is never
\* sent a request, and the pool a request was reported for holds no such
\* provider.
C11_ChainMismatchExcluded ==
    (LimitPositive /\ pc # "new") =>
        /\ \A p \in Pool :
              ChainOf(http_providers[p].url) # ChainOf(http_providers[1].url) =>
                  sent[p] = <<>>
        /\ Reported =>
              \A p \in Pool :
                  ChainOf(http_providers[p].url) = ChainOf(http_providers[1].url)

\* C12: with one provider in the pool a reported request has its completion
\* line and nothing else: no "all matched", no tables.
C12_SingleProviderNoComparison ==
    (LimitPositive /\ Reported /\ Len(http_providers) = 1) =>
        /\ ~MatchedPrinted
        /\ ~HasLine(reqOut, "successes")
        /\ ~HasLine(reqOut, "errors")
        /\ reqOut = <<(<<"completed", http_providers[1].url>>)>>

\* The providers whose body no other provider gave, when every call
\* succeeded and all the other providers agree with each other.
OddOnes ==
    {p \in Pool :
        /\ DOMAIN responses = Pool
        /\ FailedCalls = {}
        /\ Pool \ {p} # {}
        /\ \A q \in Pool \ {p} : responses[q].body # responses[p].body
        /\ \A q, q2 \in Pool \ {p} : responses[q].body = responses[q2].body}

\* C13: when one provider gives another body than the others for a request,
\* what is reported for that request has an entry that names that provider.
C13_MismatchNamesProvider ==
    (/\ LimitPositive
     /\ Reported
     /\ OddOnes # {}
     /\ \A p, q \in Pool : p # q => http_providers[p].url # http_providers[q].url) =>
        \E p \in OddOnes :
            \E k \in DOMAIN reqOut :
                /\ reqOut[k][1] \in {"successes", "errors"}
                /\ http_providers[p].url \in DOMAIN reqOut[k][2]

\* The tables a request is to get, from the responses of its own calls and
\* nothing else: per body, and per error text, the number of providers that
\* gave it.
ExpectedSuccesses ==
    [b \in OkBodies |->
        Cardinality({p \in DOMAIN responses \ FailedCalls : responses[p].body = b})]
ExpectedErrors ==
    [t \in {FormatErr(responses[p].err) : p \in FailedCalls} |->
        Cardinality({p \in FailedCalls : FormatErr(responses[p].err) = t})]

\* C14: what is reported for a request is a function of the outcomes of that
\* request's own calls: the tables are ExpectedSuccesses and ExpectedErrors
\* and the verdict follows from them, whatever was read, answered and
\* reported before; and next_id of every provider is 1 in every state. The
\* same scenario therefore gives the same tables and verdicts again.
C14_ReportDependsOnOutcomesOnly ==
    /\ \A p \in Pool : http_providers[p].next_id = 1
    /\ Reported =>
          /\ successes = ExpectedSuccesses
          /\ errors = ExpectedErrors
          /\ verdicts[Len(verdicts)].matched =
                (Cardinality(OkBodies) = 1 /\ FailedCalls = {})
          /\ verdicts[Len(verdicts)].matched = MatchedPrinted

\* The second request of a run, after a first one with a failed call and
\* tables of its own.
C14_Witness ==
    /\ Reported
    /\ Len(http_providers) = 2
    /\ Len(verdicts) = 2
    /\ verdicts[1].failed
    /\ verdicts[2].matched

\* C17: a reported request has one count per provider: the counts of the
\* success table add up to the number of calls that succeeded, those of the
\* error table to the number that failed, both together to the pool size; and
\* while the calls of a request are pending both tables are empty.
C17_OneCountPerProvider ==
    /\ Reported =>
          /\ BagCardinality(successes) + BagCardinality(errors) = Len(http_providers)
          /\ BagCardinality(successes) = Cardinality(DOMAIN responses \ FailedCalls)
          /\ BagCardinality(errors) = Cardinality(FailedCalls)
    /\ pc = "join" => (successes = EmptyBag /\ errors = EmptyBag)

\* Two providers gave the same body to the second request: one key with
\* count 2, after a first request that had tables of its own.
C17_Witness ==
    /\ Reported
    /\ Len(http_providers) = 2
    /\ Len(verdicts) = 2
    /\ ~verdicts[1].matched
    /\ Cardinality(OkBodies) = 1
    /\ FailedCalls = {}
    /\ BagCardinality(successes) = 2

\* The completion lines of a pool, in pool order.
CompletionLines(pool) == [k \in DOMAIN pool |-> <<"completed", pool[k].url>>]

\* C18: the step that reports a request gives the same output for every
\* order in which the answers arrived: the completion lines come in pool
\* order, the tables are those of the responses, and the verdict is the one
\* the tables call for.
C18_ReportIgnoresArrivalOrder ==
    [][(pc = "join" /\ verdicts' # verdicts) =>
          /\ SubSeq(reqOut', 1, Len(http_providers)) = CompletionLines(http_providers)
          /\ successes' = ExpectedSuccesses
          /\ errors' = ExpectedErrors
          /\ HasLine(reqOut', "all matched! yey!") =
                (Cardinality(OkBodies) = 1 /\ FailedCalls = {})]_vars

\* Two providers with different urls whose answers came in against pool
\* order, the second request of the run, ready to be reported.
C18_Witness ==
    /\ pc = "join"
    /\ Len(http_providers) = 2
    /\ http_providers[1].url # http_providers[2].url
    /\ arrival = <<2, 1>>
    /\ Len(verdicts) = 1

Pending == created # {} \/ inflight # {}

\* C15: the lines go out in lock-step. No provider is sent line k+1 before
\* the verdict of line k is there; no provider is sent a later line while the
\* call of another provider is still unanswered; and while any call of a line
\* is still to be issued or answered, run is inside that line's
\* send_supposed_json and has read no further line.
C15_LockStep ==
    /\ \A p \in Pool : p \in DOMAIN sent => Len(sent[p]) <= Len(verdicts) + 1
    /\ \A p, q \in Pool :
          (p \in DOMAIN sent /\ q \in DOMAIN sent /\ Len(sent[p]) > Len(sent[q])) =>
              q \notin inflight
    /\ Pending => (pc = "join" /\ Len(accepted) = Len(verdicts) + 1)
    /\ Len(accepted) <= Len(verdicts) + 1

\* The second provider has answered the first line, the first provider has
\* not, and a second line would be allowed by max_count: nothing more was
\* read or sent.
C15_Witness ==
    /\ pc = "join"
    /\ Len(http_providers) = 2
    /\ max_count = 2
    /\ 1 \in inflight
    /\ 2 \in DOMAIN responses
    /\ Len(accepted) = 1
    /\ Len(sent[2]) = 1

====
